---------------------------- MODULE Spec2Model ----------------------------
(***************************************************************************)
(* A model of transcribe.py: the Whisper runner with optional AI           *)
(* post-translation.                                                       *)
(*                                                                         *)
(* Python strings are sequences of one-character strings, so that strip,   *)
(* split, join, replace and the regular-expression substitution act on     *)
(* characters as the source does.  The module holds several               *)
(* specifications over one set of variables:                               *)
(*   Spec / FairSpec  the file loop of main()                              *)
(*   SpecKey          ensure_openai_api_key over a sequence of runs        *)
(*   SpecChunk        chunk_text                                           *)
(*   SpecSanitize     sanitize_folder_name                                 *)
(*   SpecTs           ts_srt and ts_vtt                                    *)
(*   SpecSubs         write_srt and write_vtt                              *)
(* A specification leaves the variables of the others at their idle value. *)
(***************************************************************************)
EXTENDS Integers, Sequences, FiniteSets, TLC

VARIABLES
    call,        \* pure functions: "pending" before the call, "returned" after
    arg,         \* pure functions: the argument(s) of the call
    ret,         \* pure functions: the value returned (or the file written)
    keyFile,     \* openai_api_key.txt: [exists, content]
    kpc,         \* ensure_openai_api_key: "start", "prompt" or "returned"
    keyRet,      \* the key ensure_openai_api_key returned
    krun,        \* the number of the current run
    keyAtStart,  \* history: keyFile as the current run found it
    kWrites,     \* history: the contents written in the current run, in order
    kPrompts,    \* history: the values entered in the current run, in order
    inputs,      \* main: args.inputs, each [dir, stem, ext, isFile]
    in_lang,     \* main: the validated input language
    out_lang,    \* main: the validated output language
    targets,     \* main: the effective output formats
    idx,         \* main: the position of the file loop in inputs (from 1)
    pc,          \* main: "check", "transcribe", "translate", "done", "aborted"
    nChunks,     \* main: the chunks of the text being post-translated
    chunksDone,  \* main: the chunks translated so far
    dirs,        \* the output directories that exist
    files,       \* the output files: path -> [by, kind], by the input's position
    written,     \* history: the paths written for each input
    translated,  \* history: per input "none", "ok" or "failed" (post-translation)
    log          \* history: the events of the run, in order

fnVars == <<call, arg, ret>>
keyVars == <<keyFile, kpc, keyRet, krun, keyAtStart, kWrites, kPrompts>>
mainVars == <<inputs, in_lang, out_lang, targets, idx, pc, nChunks, chunksDone,
              dirs, files, written, translated, log>>

FnIdle == call = "idle" /\ arg = <<>> /\ ret = <<>>

KeyIdle ==
    /\ keyFile = [exists |-> FALSE, content |-> <<>>]
    /\ kpc = "idle" /\ keyRet = <<>> /\ krun = 0
    /\ keyAtStart = keyFile /\ kWrites = <<>> /\ kPrompts = <<>>

MainIdle ==
    /\ inputs = <<>> /\ in_lang = "" /\ out_lang = "" /\ targets = {}
    /\ idx = 0 /\ pc = "idle" /\ nChunks = 0 /\ chunksDone = 0
    /\ dirs = {} /\ files = {} /\ written = <<>> /\ translated = <<>>
    /\ log = <<>>

vars == <<fnVars, keyVars, mainVars>>

(***************************************************************************)
(* Python's str, as far as the source uses it.                             *)
(***************************************************************************)

NL == "\n"
CR == "\r"
TAB == "\t"
SP == " "

\* str.strip() removes these from both ends (the members of Python's
\* whitespace the model's alphabets hold).
Whitespace == {SP, TAB, NL, CR}

RECURSIVE LStrip(_)
LStrip(s) ==
    IF s # <<>> /\ Head(s) \in Whitespace THEN LStrip(Tail(s)) ELSE s

RECURSIVE RStrip(_)
RStrip(s) ==
    IF s # <<>> /\ s[Len(s)] \in Whitespace
    THEN RStrip(SubSeq(s, 1, Len(s) - 1))
    ELSE s

\* str.strip()
Strip(s) == RStrip(LStrip(s))

\* str.startswith(prefix)
StartsWith(s, prefix) ==
    Len(s) >= Len(prefix) /\ SubSeq(s, 1, Len(prefix)) = prefix

\* str.split(sep) for a one-character separator: always at least one piece.
RECURSIVE SplitAcc(_, _, _)
SplitAcc(s, sep, cur) ==
    IF s = <<>> THEN <<cur>>
    ELSE IF Head(s) = sep THEN <<cur>> \o SplitAcc(Tail(s), sep, <<>>)
    ELSE SplitAcc(Tail(s), sep, Append(cur, Head(s)))

Split(s, sep) == SplitAcc(s, sep, <<>>)

\* sep.join(pieces), sep a string
RECURSIVE Join(_, _)
Join(pieces, sep) ==
    IF pieces = <<>> THEN <<>>
    ELSE IF Len(pieces) = 1 THEN pieces[1]
    ELSE pieces[1] \o sep \o Join(Tail(pieces), sep)

\* text.replace("\r\n", "\n")
RECURSIVE ReplaceCrLf(_)
ReplaceCrLf(s) ==
    IF s = <<>> THEN <<>>
    ELSE IF Len(s) >= 2 /\ s[1] = CR /\ s[2] = NL
         THEN <<NL>> \o ReplaceCrLf(SubSeq(s, 3, Len(s)))
    ELSE <<Head(s)>> \o ReplaceCrLf(Tail(s))

\* All strings over an alphabet, of length at most n.
StringsUpTo(alphabet, n) == UNION {[1..k -> alphabet] : k \in 0..n}

(***************************************************************************)
(* chunk_text(text, max_chars)                                             *)
(***************************************************************************)

\* The loop of chunk_text over the lines still to read; the state of the
\* loop is (chunks, current, count).
RECURSIVE ChunkLoopDropReset(_, _, _, _, _)
ChunkLoopDropReset(lines, max_chars, chunks, current, count) ==
    IF lines = <<>>
    THEN IF current # <<>> THEN Append(chunks, Join(current, <<NL>>)) ELSE chunks
    ELSE LET line == Head(lines) IN
         IF count + Len(line) + 1 > max_chars /\ current # <<>>
         THEN ChunkLoopDropReset(Tail(lines), max_chars,
                        Append(chunks, Join(current, <<NL>>)),
                        <<>>, Len(line) + 1)
         ELSE ChunkLoopDropReset(Tail(lines), max_chars, chunks,
                        Append(current, line), count + Len(line) + 1)

RECURSIVE ChunkLoop(_, _, _, _, _)
ChunkLoop(lines, max_chars, chunks, current, count) ==
    IF lines = <<>>
    THEN IF current # <<>> THEN Append(chunks, Join(current, <<NL>>)) ELSE chunks
    ELSE LET line == Head(lines) IN
         IF count + Len(line) + 1 > max_chars /\ current # <<>>
         THEN ChunkLoop(Tail(lines), max_chars,
                        Append(chunks, Join(current, <<NL>>)),
                        <<line>>, Len(line) + 1)
         ELSE ChunkLoop(Tail(lines), max_chars, chunks,
                        Append(current, line), count + Len(line) + 1)

chunk_text(text, max_chars) ==
    ChunkLoop(Split(ReplaceCrLf(text), NL), max_chars, <<>>, <<>>, 0)

\* Bounds of the texts and budgets tried.
MaxTextLen == 4
MaxBudget == 3

TextAlphabet == {"a", NL, CR}

ChunkInit ==
    /\ call = "pending"
    /\ arg \in [text : StringsUpTo(TextAlphabet, MaxTextLen),
                max_chars : 1..MaxBudget]
    /\ ret = <<>>

ChunkCall ==
    /\ call = "pending"
    /\ call' = "returned"
    /\ ret' = chunk_text(arg.text, arg.max_chars)
    /\ UNCHANGED <<arg, keyVars, mainVars>>

InitChunk == ChunkInit /\ KeyIdle /\ MainIdle

SpecChunk == InitChunk /\ [][ChunkCall]_vars

\* The lines of all chunks, in order.
RECURSIVE ChunkLines(_)
ChunkLines(chunks) ==
    IF chunks = <<>> THEN <<>>
    ELSE Split(Head(chunks), NL) \o ChunkLines(Tail(chunks))

HasCrLf(s) == \E i \in 1..(Len(s) - 1) : s[i] = CR /\ s[i + 1] = NL

\* C5 (as stated): chunk_text never splits a line, keeps every line once and
\* in order, and the chunks joined by a newline are the original text exactly.
C5_RoundTripExact ==
    call = "returned" =>
        /\ ChunkLines(ret) = Split(arg.text, NL)
        /\ Join(ret, <<NL>>) = arg.text

\* C5 (amended): the lines of the chunks are, in order, the lines of the text
\* with every CRLF read as LF; the chunks joined by a newline are that text,
\* which is the original text exactly when it holds no CRLF.
C5_RoundTripModuloCrLf ==
    call = "returned" =>
        /\ ChunkLines(ret) = Split(ReplaceCrLf(arg.text), NL)
        /\ Join(ret, <<NL>>) = ReplaceCrLf(arg.text)
        /\ (~HasCrLf(arg.text) => Join(ret, <<NL>>) = arg.text)
        /\ (HasCrLf(arg.text) => Join(ret, <<NL>>) # arg.text)

\* A text with a CRLF and lines enough to be cut into several chunks, one of
\* them of two lines.
C5_Witness ==
    /\ call = "returned"
    /\ HasCrLf(arg.text)
    /\ Len(ret) >= 2
    /\ \E i \in 1..Len(ret) : Len(Split(ret[i], NL)) >= 2

\* C6: every chunk chunk_text returns is at most max_chars long.
C6_ChunkWithinBudget ==
    call = "returned" => \A i \in 1..Len(ret) : Len(ret[i]) <= arg.max_chars

(***************************************************************************)
(* sanitize_folder_name(name)                                              *)
(***************************************************************************)

\* The class [<>:"/\\|?*\x00-\x1F] of the regular expression: the nine
\* punctuation characters, and the control characters (of which the model
\* holds tab, line feed and carriage return).
IllegalChars == {"<", ">", ":", "\"", "/", "\\", "|", "?", "*", TAB, NL, CR}

\* re.sub(class, '_', s)
ReSubIllegal(s) ==
    [i \in 1..Len(s) |-> IF s[i] \in IllegalChars THEN "_" ELSE s[i]]

DefaultFolder == <<"o", "u", "t", "p", "u", "t">>

\* The `or "output"` taken whenever any character was replaced.
sanitize_folder_name_eager(name) ==
    LET r == ReSubIllegal(Strip(name)) IN
    IF r = <<>> \/ r # Strip(name) THEN DefaultFolder ELSE r

sanitize_folder_name(name) ==
    LET r == ReSubIllegal(Strip(name)) IN
    IF r = <<>> THEN DefaultFolder ELSE r

\* Bound of the stems tried.
MaxStemLen == 3

StemAlphabet == {"a", ":", "?", SP, TAB}

SanitizeInit ==
    /\ call = "pending"
    /\ arg \in StringsUpTo(StemAlphabet, MaxStemLen)
    /\ ret = <<>>

SanitizeCall ==
    /\ call = "pending"
    /\ call' = "returned"
    /\ ret' = sanitize_folder_name(arg)
    /\ UNCHANGED <<arg, keyVars, mainVars>>

InitSanitize == SanitizeInit /\ KeyIdle /\ MainIdle

SpecSanitize == InitSanitize /\ [][SanitizeCall]_vars

AllIllegal(s) == s # <<>> /\ \A i \in 1..Len(s) : s[i] \in IllegalChars

Front(b) == SubSeq(b, 1, Len(b) - 1)
Last(b) == b[Len(b)]
Zeros(n) == [i \in 1..n |-> 0]

\* b without its leading zeros
Norm(b) ==
    LET ones == {i \in 1..Len(b) : b[i] = 1} IN
    IF ones = {} THEN <<>>
    ELSE SubSeq(b, CHOOSE i \in ones : \A j \in ones : i <= j, Len(b))

RECURSIVE NatToBits(_)
NatToBits(n) == IF n = 0 THEN <<>> ELSE Append(NatToBits(n \div 2), n % 2)

RECURSIVE BitsToNat(_)
BitsToNat(b) == IF b = <<>> THEN 0 ELSE 2 * BitsToNat(Front(b)) + Last(b)

\* The one element of a singleton; {e} evaluates e before it is used.
Only(S) == CHOOSE x \in S : TRUE

\* The digits of b * c + carry that fit the length of b, and the carry out
\* of them (c and carry small).  The digits are worked from the last one up,
\* by halves: lo is the lower half's result, hi the upper half's.
RECURSIVE MulFold(_, _, _)
MulFold(b, c, carry) ==
    IF b = <<>> THEN [bits |-> <<>>, carry |-> carry]
    ELSE IF Len(b) = 1
    THEN [bits |-> <<(b[1] * c + carry) % 2>>,
          carry |-> (b[1] * c + carry) \div 2]
    ELSE Only({Only({[bits |-> hi.bits \o lo.bits, carry |-> hi.carry] :
                     hi \in {MulFold(SubSeq(b, 1, Len(b) \div 2), c, lo.carry)}}) :
               lo \in {MulFold(SubSeq(b, Len(b) \div 2 + 1, Len(b)), c, carry)}})

\* b * c + carry
MulBits(b, c, carry) ==
    LET p == MulFold(b, c, carry) IN Norm(NatToBits(p.carry) \o p.bits)

\* b + a, a small
AddBits(b, a) == MulBits(b, 1, a)

\* Long division of the digits b by the small d, the remainder carried in
\* being r: quotient digits (as many as b) and remainder, by halves.
RECURSIVE DivFold(_, _, _)
DivFold(b, d, r) ==
    IF b = <<>> THEN [q |-> <<>>, r |-> r]
    ELSE IF Len(b) = 1
    THEN IF 2 * r + b[1] >= d THEN [q |-> <<1>>, r |-> 2 * r + b[1] - d]
                              ELSE [q |-> <<0>>, r |-> 2 * r + b[1]]
    ELSE Only({Only({[q |-> hi.q \o lo.q, r |-> lo.r] :
                     lo \in {DivFold(SubSeq(b, Len(b) \div 2 + 1, Len(b)), d, hi.r)}}) :
               hi \in {DivFold(SubSeq(b, 1, Len(b) \div 2), d, r)}})

DivBits(b, d) == DivFold(b, d, 0)

\* b / 2^n rounded to the nearest integer, ties to even; sticky says that
\* more non-zero digits follow those of b.
RoundBits(b, n, sticky) ==
    LET p == IF Len(b) > n THEN b ELSE Zeros(n + 1 - Len(b)) \o b
        keep == SubSeq(p, 1, Len(p) - n)
        drop == SubSeq(p, Len(p) - n + 1, Len(p))
        rest == sticky \/ \E i \in 2..n : drop[i] = 1
        up == n >= 1 /\ drop[1] = 1 /\ (rest \/ Last(keep) = 1)
    IN  Norm(IF up THEN AddBits(keep, 1) ELSE keep)

\* Bits of the significand of a double.
Precision == 53
\* Binary digits a quotient is carried to before it is rounded: enough for
\* every quotient here (of a divisor below 2^20) to have more than
\* Precision + 2 significant digits.
GuardShift == Precision + 22

\* The double nearest to m / 2^s (sticky: more non-zero digits follow).
Fl(m, s, sticky) ==
    LET b == Norm(m) IN
    IF Len(b) <= Precision THEN [m |-> b, s |-> s]
    ELSE [m |-> RoundBits(b, Len(b) - Precision, sticky),
          s |-> s - (Len(b) - Precision)]

\* The double nearest to n / d (true division of two integers).
FlDiv(n, d) ==
    LET qr == DivBits(Norm(n) \o Zeros(GuardShift), d)
    IN  Fl(qr.q, GuardShift, qr.r # 0)

\* int(x): the integer part of a double (small enough for an integer here)
Trunc(x) ==
    IF Len(x.m) > x.s THEN BitsToNat(SubSeq(x.m, 1, Len(x.m) - x.s)) ELSE 0

\* x - int(x): exact in double arithmetic, the fraction's digits being among
\* those of x.
Frac(x) ==
    IF Len(x.m) > x.s
    THEN [m |-> Norm(SubSeq(x.m, Len(x.m) - x.s + 1, Len(x.m))), s |-> x.s]
    ELSE x

\* x * c in double arithmetic, c a small integer
FlMul(x, c) == Fl(MulBits(x.m, c, 0), x.s, FALSE)

\* x rounded to the nearest integer, ties to even
RoundHalfEven(x) == BitsToNat(RoundBits(x.m, x.s, FALSE))

(***************************************************************************)
(* ts_srt(seconds), ts_vtt(seconds)                                        *)
(*                                                                         *)
(* The argument is a whole number of milliseconds, millis; the float the   *)
(* function receives is the double nearest to millis / 1000.               *)
(***************************************************************************)

MsPerSecond == 1000
UsPerSecond == 1000000

\* max(0, seconds)
ClampSeconds(millis) ==
    IF millis < 0 THEN [m |-> <<>>, s |-> 0]
    ELSE FlDiv(NatToBits(millis), MsPerSecond)

\* timedelta(seconds=x): the microseconds held, the fractional second being
\* multiplied by 10^6 in double arithmetic and rounded half to even.
TimedeltaUs(x) ==
    AddBits(MulBits(NatToBits(Trunc(x)), UsPerSecond, 0),
            RoundHalfEven(FlMul(Frac(x), UsPerSecond)))

\* td.total_seconds(): microseconds / 10^6, true division
TotalSeconds(us) == FlDiv(us, UsPerSecond)

DigitChars == <<"0", "1", "2", "3", "4", "5", "6", "7", "8", "9">>

RECURSIVE Decimal(_)
Decimal(n) ==
    IF n < 10 THEN <<DigitChars[n + 1]>>
    ELSE Append(Decimal(n \div 10), DigitChars[(n % 10) + 1])

\* format(n, "0<w>d"): at least w digits, zero-padded
RECURSIVE Padded(_, _)
Padded(n, w) ==
    LET d == Decimal(n) IN
    IF Len(d) >= w THEN d ELSE [i \in 1..(w - Len(d)) |-> "0"] \o d

\* The fields (h, m, s, ms) both functions compute.
TsFields(millis) ==
    LET td == TotalSeconds(TimedeltaUs(ClampSeconds(millis)))
        total == Trunc(td)
    IN  [h |-> total \div 3600, m |-> (total % 3600) \div 60, s |-> total % 60,
         ms |-> Trunc(FlMul(Frac(td), MsPerSecond))]

TsFormat(f, sep) ==
    Padded(f.h, 2) \o <<":">> \o Padded(f.m, 2) \o <<":">> \o Padded(f.s, 2)
        \o <<sep>> \o Padded(f.ms, 3)

ts_srt(millis) == TsFormat(TsFields(millis), ",")

ts_vtt(millis) == TsFormat(TsFields(millis), ".")

\* Bounds of the second counts tried: every millisecond from -MaxNegMs to
\* MaxMs, and a few around one hour, 99 hours and 100 hours.
MaxMs == 1100
MaxNegMs == 2

TsInputs ==
    ((0 - MaxNegMs)..MaxMs)
    \cup {h * 3600000 + m * 60000 + ms :
            h \in {1, 99, 100}, m \in {0, 59}, ms \in {0, 500, 999}}

TsInit ==
    /\ call = "pending"
    /\ arg \in TsInputs
    /\ ret = <<>>

TsCall ==
    /\ call = "pending"
    /\ call' = "returned"
    /\ ret' = [srt |-> ts_srt(arg), vtt |-> ts_vtt(arg)]
    /\ UNCHANGED <<arg, keyVars, mainVars>>

InitTs == TsInit /\ KeyIdle /\ MainIdle

SpecTs == InitTs /\ [][TsCall]_vars

IsDigit(c) == \E i \in 1..10 : DigitChars[i] = c

\* ^\d{2}:\d{2}:\d{2}<sep>\d{3}$
TsShape(t, sep) ==
    /\ Len(t) = 12
    /\ \A i \in {1, 2, 4, 5, 7, 8, 10, 11, 12} : IsDigit(t[i])
    /\ t[3] = ":" /\ t[6] = ":" /\ t[9] = sep

\* The timestamp of a whole number of milliseconds.
TsOfMillis(millis, sep) ==
    LET t == IF millis < 0 THEN 0 ELSE millis IN
    Padded(t \div 3600000, 2) \o <<":">> \o Padded((t \div 60000) % 60, 2)
        \o <<":">> \o Padded((t \div 1000) % 60, 2)
        \o <<sep>> \o Padded(t % 1000, 3)

\* C8: for every second count, ts_srt has the shape HH:MM:SS,mmm and ts_vtt
\* the shape HH:MM:SS.mmm; both hold the hours, minutes, seconds and
\* milliseconds of the count's total milliseconds, a negative count those of
\* zero.
C8_TimestampEncodesMillis ==
    call = "returned" =>
        /\ TsShape(ret.srt, ",")
        /\ TsShape(ret.vtt, ".")
        /\ ret.srt = TsOfMillis(arg, ",")
        /\ ret.vtt = TsOfMillis(arg, ".")

(***************************************************************************)
(* write_srt(path, segments), write_vtt(path, segments)                    *)
(*                                                                         *)
(* A segment is [start, end, text], start and end in whole milliseconds.   *)
(* The file written is the string handed to path.write_text.               *)
(***************************************************************************)

Arrow == <<SP, "-", "-", ">", SP>>
WebVtt == <<"W", "E", "B", "V", "T", "T">>

\* enumerate(segments, start=0)
SrtBlockZeroBased(i, seg) ==
    Decimal(i - 1) \o <<NL>> \o ts_srt(seg.start) \o Arrow \o ts_srt(seg.end)
        \o <<NL>> \o Strip(seg.text) \o <<NL>>

\* f"{i}\n{ts_srt(seg['start'])} --> {ts_srt(seg['end'])}\n{seg['text'].strip()}\n"
SrtBlock(i, seg) ==
    Decimal(i) \o <<NL>> \o ts_srt(seg.start) \o Arrow \o ts_srt(seg.end)
        \o <<NL>> \o Strip(seg.text) \o <<NL>>

\* f"{ts_vtt(seg['start'])} --> {ts_vtt(seg['end'])}\n{seg['text'].strip()}\n"
VttBlock(seg) ==
    ts_vtt(seg.start) \o Arrow \o ts_vtt(seg.end)
        \o <<NL>> \o Strip(seg.text) \o <<NL>>

write_srt(segments) ==
    LET lines == [i \in 1..Len(segments) |-> SrtBlock(i, segments[i])]
    IN  Strip(Join(lines, <<NL>>)) \o <<NL>>

write_vtt(segments) ==
    LET lines == <<WebVtt \o <<NL>>>>
                     \o [i \in 1..Len(segments) |-> VttBlock(segments[i])]
    IN  Strip(Join(lines, <<NL>>)) \o <<NL>>

\* Bound of the number of segments tried.
MaxSegs == 3

\* The segment texts tried: empty, blank, plain, padded.
SegTexts == {<<>>, <<SP>>, <<"a">>, <<SP, "b", SP>>}

\* Segment k of a sequence runs from SegTime(k - 1) to SegTime(k).
SegTime(k) == 1250 * k

SegmentsOf(texts) ==
    [k \in 1..Len(texts) |->
        [start |-> SegTime(k - 1), end |-> SegTime(k), text |-> texts[k]]]

SubsInit ==
    /\ call = "pending"
    /\ arg \in {SegmentsOf(t) : t \in StringsUpTo(SegTexts, MaxSegs)}
    /\ ret = <<>>

SubsCall ==
    /\ call = "pending"
    /\ call' = "returned"
    /\ ret' = [srt |-> write_srt(arg), vtt |-> write_vtt(arg)]
    /\ UNCHANGED <<arg, keyVars, mainVars>>

InitSubs == SubsInit /\ KeyIdle /\ MainIdle

SpecSubs == InitSubs /\ [][SubsCall]_vars

\* The n blocks of the claim: sequence number (SRT only), the two
\* timestamps as ts_srt and ts_vtt format them (their value is C8's matter),
\* the stripped text; one blank line between blocks, one newline at the end.
ClaimedSrtBlock(k, seg) ==
    Decimal(k) \o <<NL>> \o ts_srt(seg.start) \o Arrow \o ts_srt(seg.end)
        \o <<NL>> \o Strip(seg.text)

ClaimedVttBlock(seg) ==
    ts_vtt(seg.start) \o Arrow \o ts_vtt(seg.end) \o <<NL>> \o Strip(seg.text)

ClaimedSrt(segs) ==
    Join([k \in 1..Len(segs) |-> ClaimedSrtBlock(k, segs[k])], <<NL, NL>>)
        \o <<NL>>

ClaimedVtt(segs) ==
    Join(<<WebVtt>> \o [k \in 1..Len(segs) |-> ClaimedVttBlock(segs[k])],
         <<NL, NL>>) \o <<NL>>

\* No blank line at the start or the end, one trailing newline (for no
\* blocks at all, the trailing newline alone).
CleanEnds(file) ==
    /\ file # <<>>
    /\ (Len(file) >= 2 => Head(file) # NL)
    /\ Last(file) = NL
    /\ (Len(file) >= 2 => file[Len(file) - 1] # NL)

LastTextEmpty(segs) == segs # <<>> /\ Strip(segs[Len(segs)].text) = <<>>

\* C9 (as stated): for every segment sequence, the empty one and those with
\* empty stripped texts included, the SRT file is the n numbered blocks in
\* order, each with its timestamps and stripped text, one blank line between
\* them, no blank line at either end and one trailing newline; the VTT file
\* is the WEBVTT line and the same blocks without numbers.
C9_SubtitleFilesAsStated ==
    call = "returned" =>
        /\ ret.srt = ClaimedSrt(arg) /\ CleanEnds(ret.srt)
        /\ ret.vtt = ClaimedVtt(arg) /\ CleanEnds(ret.vtt)

\* C9 (amended): the statement holds for every segment sequence whose last
\* segment has a non-empty stripped text, and for the empty sequence (empty
\* texts of earlier segments included).  When the last stripped text is
\* empty, the final strip removes that block's empty text line: the file is
\* the stated one less its last newline, and ends after the timestamps.
C9_SubtitleFilesLastTextNonEmpty ==
    call = "returned" =>
        /\ ~LastTextEmpty(arg) =>
              /\ ret.srt = ClaimedSrt(arg) /\ CleanEnds(ret.srt)
              /\ ret.vtt = ClaimedVtt(arg) /\ CleanEnds(ret.vtt)
        /\ LastTextEmpty(arg) =>
              /\ ret.srt = Front(ClaimedSrt(arg)) /\ CleanEnds(ret.srt)
              /\ ret.vtt = Front(ClaimedVtt(arg)) /\ CleanEnds(ret.vtt)

\* Three segments written, an earlier one with an empty stripped text and
\* the last one with a padded text.
C9_Witness ==
    /\ call = "returned"
    /\ Len(arg) = 3
    /\ Strip(arg[2].text) = <<>>
    /\ arg[3].text = <<SP, "b", SP>>
    /\ ret.srt = ClaimedSrt(arg)

(***************************************************************************)
(* ensure_openai_api_key(project_dir), over a sequence of runs             *)
(***************************************************************************)

SkDash == <<"s", "k", "-">>

\* looks_valid without the prefix test
looks_valid_nonempty(k) == k # <<>>

\* looks_valid(k): bool(k) and k.startswith("sk-")
looks_valid(k) == k # <<>> /\ StartsWith(k, SkDash)

\* Bounds: the runs in a row, and the values entered in one run.
MaxRuns == 3
MaxPrompts == 2

\* File contents and entered values tried.
KeyStrings ==
    {<<>>, <<SP>>, <<"a">>, <<"s", "k">>, <<"a", "s", "k", "-">>,
     SkDash, <<"s", "k", "-", "a">>, <<SP, "s", "k", "-", "b", NL>>}

KeyInit ==
    /\ keyFile \in {[exists |-> FALSE, content |-> <<>>]}
                     \cup [exists : {TRUE}, content : KeyStrings]
    /\ kpc = "start"
    /\ keyRet = <<>>
    /\ krun = 1
    /\ keyAtStart = keyFile
    /\ kWrites = <<>>
    /\ kPrompts = <<>>

\* Lines 82-90: read the file if it exists, strip, validate; a valid key is
\* returned at once.
KeyRead ==
    /\ kpc = "start"
    /\ LET key == IF keyFile.exists THEN Strip(keyFile.content) ELSE <<>>
       IN  IF looks_valid(key)
           THEN kpc' = "returned" /\ keyRet' = key
           ELSE kpc' = "prompt" /\ keyRet' = keyRet
    /\ UNCHANGED <<keyFile, krun, keyAtStart, kWrites, kPrompts, fnVars, mainVars>>

\* Lines 92-100: one turn of the prompt loop.
KeyPrompt(raw) ==
    /\ kpc = "prompt"
    /\ Len(kPrompts) < MaxPrompts
    /\ kPrompts' = Append(kPrompts, raw)
    /\ LET entered == Strip(raw)
       IN  IF looks_valid(entered)
           THEN /\ keyFile' = [exists |-> TRUE, content |-> entered]
                /\ kWrites' = Append(kWrites, entered)
                /\ keyRet' = entered
                /\ kpc' = "returned"
           ELSE UNCHANGED <<keyFile, kWrites, keyRet, kpc>>
    /\ UNCHANGED <<krun, keyAtStart, fnVars, mainVars>>

\* The program is started again.
KeyNextRun ==
    /\ kpc = "returned"
    /\ krun < MaxRuns
    /\ krun' = krun + 1
    /\ kpc' = "start"
    /\ keyRet' = <<>>
    /\ keyAtStart' = keyFile
    /\ kWrites' = <<>>
    /\ kPrompts' = <<>>
    /\ UNCHANGED <<keyFile, fnVars, mainVars>>

KeyNext ==
    \/ KeyRead
    \/ \E raw \in KeyStrings : KeyPrompt(raw)
    \/ KeyNextRun

InitKey == KeyInit /\ FnIdle /\ MainIdle

SpecKey == InitKey /\ [][KeyNext]_vars

\* A file that exists and whose stripped content starts with "sk-".
StoredValid(f) ==
    /\ f.exists
    /\ Len(Strip(f.content)) >= 3
    /\ SubSeq(Strip(f.content), 1, 3) = SkDash

C4_RunInvariant ==
    /\ StoredValid(keyAtStart) =>
          /\ kPrompts = <<>> /\ kWrites = <<>> /\ keyFile = keyAtStart
          /\ (kpc = "returned" => keyRet = Strip(keyAtStart.content))
    /\ Len(kWrites) <= 1
    /\ kWrites # <<>> =>
          /\ ~StoredValid(keyAtStart)
          /\ kPrompts # <<>>
          /\ kWrites[1] = Strip(kPrompts[Len(kPrompts)])
          /\ Len(kWrites[1]) >= 3 /\ SubSeq(kWrites[1], 1, 3) = SkDash
          /\ keyFile = [exists |-> TRUE, content |-> kWrites[1]]
    /\ (kpc = "returned" /\ ~StoredValid(keyAtStart)) =>
          /\ Len(kWrites) = 1 /\ keyRet = kWrites[1]
    /\ kWrites = <<>> => keyFile = keyAtStart

\* C4: the key file, once valid, is never overwritten.  A run that finds a
\* stored key whose stripped content starts with "sk-" prompts for nothing,
\* writes nothing and returns that stripped content; a run writes the file
\* only when the stored key is absent or invalid, once (when it returns), and
\* only the stripped entered value, which starts with "sk-".  Over any
\* sequence of runs and entered values.
C4_ValidKeyNeverOverwritten ==
    /\ []C4_RunInvariant
    /\ [][StoredValid(keyFile) => keyFile' = keyFile]_vars

\* A later run that found a valid stored key padded with whitespace, asked
\* for nothing and returned the stripped content.
C4_Witness ==
    /\ krun >= 2
    /\ kpc = "returned"
    /\ StoredValid(keyAtStart)
    /\ keyAtStart.content # Strip(keyAtStart.content)
    /\ keyRet = Strip(keyAtStart.content)
    /\ kPrompts = <<>>

(***************************************************************************)
(* main(): the validated options and the file loop                         *)
(*                                                                         *)
(* The speech model and the chat-completion service are outside the        *)
(* program: a call to either returns or raises.  The text and the segments *)
(* a call returns are not followed here; a file's content is the input it  *)
(* was written for and its kind.                                           *)
(***************************************************************************)

SUPPORTED_LANGS == {"en", "zh", "hi", "es", "ar", "it"}

\* in_lang = args.in_lang if args.in_lang in SUPPORTED_LANGS else "it"
ValidInLang(a) == IF a \in SUPPORTED_LANGS THEN a ELSE "it"

\* out_lang = args.out_lang if args.out_lang in SUPPORTED_LANGS else in_lang
ValidOutLang(a, inl) == IF a \in SUPPORTED_LANGS THEN a ELSE inl

ValidFormats == {"txt", "srt", "vtt"}

\* targets = list(requested & valid) or ["txt"]
Targets(requested) ==
    IF requested \cap ValidFormats = {} THEN {"txt"}
    ELSE requested \cap ValidFormats

\* A Python string as a TLA+ string.
RECURSIVE Str(_)
Str(s) == IF s = <<>> THEN "" ELSE Head(s) \o Str(Tail(s))

\* not in_path.exists() or not in_path.is_file()
Missing(inp) == ~inp.isFile

\* name = sanitize_folder_name(in_path.stem)
FolderName(inp) == Str(sanitize_folder_name(inp.stem))

\* Step 1: decide mode
Mode(inl, outl) ==
    IF outl = inl THEN "transcribe"
    ELSE IF outl = "en" THEN "translate"
    ELSE "translate"

\* Step 2 only if the target is neither English nor the input language.
NeedsStep2(inl, outl) == outl # "en" /\ outl # inl

\* out_dir / f"{name}{tail}", out_dir being project_dir / name
OutPath(name, tail) == name \o "/" \o name \o tail

\* Step 1 with the language tag on every file of a transcription.
Step1TailTagged(mode, inl, fmt) ==
    IF mode = "transcribe" THEN " [" \o inl \o "]." \o fmt
    ELSE " [eng]." \o fmt

\* The file names of step 1, after the name.
Step1Tail(mode, inl, fmt) ==
    IF mode = "transcribe"
    THEN IF fmt = "txt" THEN " [" \o inl \o "].txt" ELSE "." \o fmt
    ELSE " [eng]." \o fmt

Step1Paths(name, mode, inl, fmts) ==
    {OutPath(name, Step1Tail(mode, inl, f)) : f \in fmts}

\* out_dir / f"{name} [{out_lang}].txt"
Step2Path(name, outl) == OutPath(name, " [" \o outl \o "].txt")

\* path.write_text: the file at the path is replaced.
WriteFile(fs, path, by, kind) ==
    {f \in fs : f.path # path} \cup {[path |-> path, by |-> by, kind |-> kind]}

RECURSIVE WriteAll(_, _, _, _, _, _)
WriteAll(fs, name, mode, inl, by, fmts) ==
    IF fmts = {} THEN fs
    ELSE LET f == CHOOSE x \in fmts : TRUE IN
         WriteAll(WriteFile(fs, OutPath(name, Step1Tail(mode, inl, f)), by, f),
                  name, mode, inl, by, fmts \ {f})

\* Bounds: the inputs of one command line, and the chunks of one text.
MaxInputs == 2
MaxChunks == 2

\* The input paths tried: two of one base name in two directories, two whose
\* stems sanitize to one folder name, and one that is no file.
InputPool ==
    {[dir |-> "a", stem |-> <<"x">>, ext |-> "mp3", isFile |-> TRUE],
     [dir |-> "b", stem |-> <<"x">>, ext |-> "mp3", isFile |-> TRUE],
     [dir |-> "a", stem |-> <<"y", "?">>, ext |-> "mp3", isFile |-> TRUE],
     [dir |-> "a", stem |-> <<"y", ":">>, ext |-> "mp3", isFile |-> TRUE],
     [dir |-> "a", stem |-> <<"m">>, ext |-> "mp3", isFile |-> FALSE]}

LangArgs == {"it", "en", "es", "xx"}
RequestedSets == SUBSET {"txt", "srt", "vtt", "pdf"}

InputLists == UNION {[1..n -> InputPool] : n \in 1..MaxInputs}

\* Lines 145-162: the options as main() holds them when the loop starts.
MainInit ==
    /\ inputs \in InputLists
    /\ \E a \in LangArgs, b \in LangArgs :
          /\ in_lang = ValidInLang(a)
          /\ out_lang = ValidOutLang(b, ValidInLang(a))
    /\ \E r \in RequestedSets : targets = Targets(r)
    /\ idx = 1
    /\ pc = "check"
    /\ nChunks = 0
    /\ chunksDone = 0
    /\ dirs = {}
    /\ files = {}
    /\ written = [i \in 1..Len(inputs) |-> {}]
    /\ translated = [i \in 1..Len(inputs) |-> "none"]
    /\ log = <<>>

Event(ev, i) == [ev |-> ev, inp |-> i]

\* Lines 166-168: the input is no file: logged, the loop goes on.
SkipMissing ==
    /\ pc = "check" /\ idx <= Len(inputs)
    /\ Missing(inputs[idx])
    /\ log' = Append(log, Event("skip", idx))
    /\ idx' = idx + 1
    /\ UNCHANGED <<inputs, in_lang, out_lang, targets, pc, nChunks, chunksDone,
                   dirs, files, written, translated, fnVars, keyVars>>

\* Lines 170-187: the folder is made, the mode decided, the model called.
Prepare ==
    /\ pc = "check" /\ idx <= Len(inputs)
    /\ ~Missing(inputs[idx])
    /\ dirs' = dirs \cup {FolderName(inputs[idx])}
    /\ log' = Append(log, Event("mkdir", idx))
    /\ pc' = "transcribe"
    /\ UNCHANGED <<inputs, in_lang, out_lang, targets, idx, nChunks, chunksDone,
                   files, written, translated, fnVars, keyVars>>

\* Line 187 raises: main() has no handler, the run ends there.
TranscribeRaise ==
    /\ pc = "transcribe"
    /\ log' = Append(log, Event("model raised", idx))
    /\ pc' = "aborted"
    /\ UNCHANGED <<inputs, in_lang, out_lang, targets, idx, nChunks, chunksDone,
                   dirs, files, written, translated, fnVars, keyVars>>

\* Lines 187-216: the model returns, the files of step 1 are written; then
\* step 2 starts (the text cut into n chunks) or the loop goes on.
TranscribeReturn(n) ==
    /\ pc = "transcribe"
    /\ LET name == FolderName(inputs[idx])
           mode == Mode(in_lang, out_lang)
       IN  /\ files' = WriteAll(files, name, mode, in_lang, idx, targets)
           /\ written' = [written EXCEPT ![idx] =
                             @ \cup Step1Paths(name, mode, in_lang, targets)]
    /\ log' = Append(log, Event("model returned", idx))
    /\ IF Mode(in_lang, out_lang) # "transcribe" /\ NeedsStep2(in_lang, out_lang)
       THEN pc' = "translate" /\ nChunks' = n /\ chunksDone' = 0 /\ idx' = idx
       ELSE pc' = "check" /\ nChunks' = 0 /\ chunksDone' = 0 /\ idx' = idx + 1
    /\ UNCHANGED <<inputs, in_lang, out_lang, targets, dirs, translated,
                   fnVars, keyVars>>

\* Lines 120-129: the request for one chunk returns; after the last one
\* (lines 131, 220-223) the target-language text file is written.
TranslateChunk ==
    /\ pc = "translate"
    /\ chunksDone < nChunks
    /\ IF chunksDone + 1 = nChunks
       THEN /\ files' = WriteFile(files, Step2Path(FolderName(inputs[idx]), out_lang),
                                  idx, "translated")
            /\ written' = [written EXCEPT ![idx] =
                              @ \cup {Step2Path(FolderName(inputs[idx]), out_lang)}]
            /\ translated' = [translated EXCEPT ![idx] = "ok"]
            /\ log' = Append(log, Event("translated", idx))
            /\ pc' = "check" /\ idx' = idx + 1
            /\ nChunks' = 0 /\ chunksDone' = 0
       ELSE /\ chunksDone' = chunksDone + 1
            /\ UNCHANGED <<files, written, translated, log, pc, idx, nChunks>>
    /\ UNCHANGED <<inputs, in_lang, out_lang, targets, dirs, fnVars, keyVars>>

\* Lines 224-225: the exception is printed, the loop goes on.
OnTranslateError ==
    /\ pc' = "check" /\ idx' = idx + 1

\* Lines 106-129 raise (the import, the client or the request of any chunk).
TranslateRaise ==
    /\ pc = "translate"
    /\ chunksDone < nChunks
    /\ translated' = [translated EXCEPT ![idx] = "failed"]
    /\ log' = Append(log, Event("translation raised", idx))
    /\ OnTranslateError
    /\ nChunks' = 0 /\ chunksDone' = 0
    /\ UNCHANGED <<inputs, in_lang, out_lang, targets, dirs, files, written,
                   fnVars, keyVars>>

\* Line 227: [DONE]
Finish ==
    /\ pc = "check" /\ idx > Len(inputs)
    /\ pc' = "done"
    /\ log' = Append(log, Event("done", idx))
    /\ UNCHANGED <<inputs, in_lang, out_lang, targets, idx, nChunks, chunksDone,
                   dirs, files, written, translated, fnVars, keyVars>>

Next ==
    \/ SkipMissing
    \/ Prepare
    \/ TranscribeRaise
    \/ \E n \in 1..MaxChunks : TranscribeReturn(n)
    \/ TranslateChunk
    \/ TranslateRaise
    \/ Finish

Init == MainInit /\ FnIdle /\ KeyIdle

Spec == Init /\ [][Next]_vars

\* The runs followed to their end: Italian input, every output language
\* case, the text alone or all three formats.
FairInit ==
    /\ Init
    /\ in_lang = "it"
    /\ targets \in {{"txt"}, ValidFormats}

\* The program is sequential and nothing but a call that raises stops it:
\* a step that can be taken is taken.
FairSpec == FairInit /\ [][Next]_vars /\ WF_vars(Next)

(***************************************************************************)
(* The claims about main()                                                 *)
(***************************************************************************)

Inputs == 1..Len(inputs)

\* The iteration of input i is over.
Completed(i) == i < idx

\* The sanitized name of input i.
NameOf(i) == Str(sanitize_folder_name(inputs[i].stem))

ThirdCase == out_lang # in_lang /\ out_lang # "en"

\* The files the claim gives step 1, under directory n.
ClaimedStep1(n) ==
    IF out_lang = in_lang
    THEN {n \o "/" \o n \o " [" \o in_lang \o "].txt" : f \in targets \cap {"txt"}}
         \cup {n \o "/" \o n \o "." \o f : f \in targets \cap {"srt", "vtt"}}
    ELSE {n \o "/" \o n \o " [eng]." \o f : f \in targets}

\* The text file of the target language.
ClaimedTarget(n) == n \o "/" \o n \o " [" \o out_lang \o "].txt"

EventsOf(i) == SelectSeq(log, LAMBDA e : e.inp = i)
EventNames(i) == [k \in 1..Len(EventsOf(i)) |-> EventsOf(i)[k].ev]

RunInOrder ==
    /\ \A k \in 1..Len(log), l \in 1..Len(log) :
          k < l => log[k].inp <= log[l].inp
    /\ \A i \in Inputs :
          /\ Completed(i) => EventsOf(i) # <<>>
          /\ i > idx => EventsOf(i) = <<>>
          /\ inputs[i].isFile /\ Completed(i) =>
                EventNames(i) \in
                    {<<"mkdir", "model returned">>,
                     <<"mkdir", "model returned", "translated">>,
                     <<"mkdir", "model returned", "translation raised">>}
    /\ pc = "done" => idx = Len(inputs) + 1

\* An input that is no file: skipped and logged, no model call, no folder,
\* no file.
MissingSkipped ==
    \A i \in Inputs :
        ~inputs[i].isFile =>
            /\ written[i] = {}
            /\ \A f \in files : f.by # i
            /\ EventNames(i) \in {<<>>, <<"skip">>}
            /\ Completed(i) => EventNames(i) = <<"skip">>

\* The run was ended by the speech model raising for the input at idx.
AbortedByModel ==
    /\ pc = "aborted"
    /\ idx \in Inputs
    /\ inputs[idx].isFile
    /\ log # <<>>
    /\ log[Len(log)] = Event("model raised", idx)

\* C3: an input that is no file is logged and skipped before any
\* model call, nothing made for it; the other inputs are processed one at a
\* time in command-line order; the run ends at [DONE].
C3_SkipAndAlwaysDone ==
    /\ [](MissingSkipped /\ RunInOrder)
    /\ <>(pc = "done")

\* What the code does keep of C3: the skipping and the order, and a run that
\* ends either at [DONE] or where the speech model raised for an input that
\* is a file (line 187 has no handler).
C3_SkipAndDoneUnlessModelRaises ==
    /\ [](MissingSkipped /\ RunInOrder)
    /\ [](pc = "aborted" => AbortedByModel)
    /\ <>(pc = "done" \/ AbortedByModel)

SomeTranslationFailed == \E i \in Inputs : translated[i] = "failed"

\* An input whose post-translation failed has its '[eng]' files and no
\* target-language file.
FailedKeepsStep1 ==
    \A i \in Inputs :
        translated[i] = "failed" =>
            /\ ClaimedTarget(NameOf(i)) \notin written[i]
            /\ written[i] = ClaimedStep1(NameOf(i))
            /\ \A p \in written[i] : \E f \in files : f.path = p

\* The step in which a post-translation fails: no file changes, the loop
\* goes on with the next input.
FailureCaught ==
    (translated' # translated /\ translated'[idx] = "failed") =>
        /\ files' = files
        /\ written' = written
        /\ pc' = "check"
        /\ idx' = idx + 1

\* C2: a failing post-translation is caught for its input alone:
\* no target-language file for it, its '[eng]' files left as they are, the
\* remaining inputs processed in order, and the run reaches [DONE].
C2_FailureCaughtAlwaysDone ==
    /\ [](FailedKeepsStep1 /\ RunInOrder)
    /\ [][FailureCaught]_vars
    /\ (SomeTranslationFailed ~> pc = "done")

\* What the code does keep of C2: the failure is caught for its input alone,
\* and the run then ends either at [DONE] or where the speech model raised
\* for a later input (line 187 has no handler).
C2_FailureCaughtDoneUnlessModelRaises ==
    /\ [](FailedKeepsStep1 /\ RunInOrder)
    /\ [][FailureCaught]_vars
    /\ [](pc = "aborted" => AbortedByModel)
    /\ (SomeTranslationFailed ~> (pc = "done" \/ AbortedByModel))

\* C10: two inputs of distinct paths, both files, never share an
\* output path.
C10_DistinctInputsDisjointOutputs ==
    \A i \in Inputs, j \in Inputs :
        (i # j /\ inputs[i] # inputs[j] /\ inputs[i].isFile /\ inputs[j].isFile)
            => written[i] \cap written[j] = {}

\* What the code does: two inputs share no output path when their sanitized
\* names differ.  When the names are equal (one base name in two directories, or
\* two stems sanitized alike) both write the same paths, and the files of the
\* earlier input are overwritten by the later one.
C10_DisjointIffNamesDiffer ==
    \A i \in Inputs, j \in Inputs :
        (i < j /\ inputs[i].isFile /\ inputs[j].isFile) =>
            /\ NameOf(i) # NameOf(j) => written[i] \cap written[j] = {}
            /\ (NameOf(i) = NameOf(j) /\ Completed(j)) =>
                  /\ ClaimedStep1(NameOf(i)) \subseteq written[i] \cap written[j]
                  /\ \A f \in files : f.path \in written[j] => f.by # i

=============================================================================
